---- MODULE Spec2Model ----
(***************************************************************************)
(* A model of OKXTracker (src/main.py): request signing, the single-shot   *)
(* exchange request, the daily fetch-and-aggregate pass over the           *)
(* configured bots, and the daily / monthly read operations over the       *)
(* in-memory daily_data dictionary.                                        *)
(*                                                                         *)
(* Python dictionaries are functions with a finite domain; None and the    *)
(* other sentinels are tagged records so that values of different shapes   *)
(* can be compared.  A calendar date 'YYYY-MM-DD' is the pair              *)
(* <<year-month, day>>; its 'YYYY-MM' prefix is the first component.       *)
(* Amounts are in USDT; the decimal strings of the exchange are kept as    *)
(* strings and parsed by float.                                            *)
(***************************************************************************)
EXTENDS Integers, Sequences, FiniteSets, TLC

VARIABLES
    clock,        \* the local wall clock, in whole days since process start
    daily_data,   \* self.daily_data: date -> (bot name -> BotDailyStat)
    pc,           \* "idle", or "await" while calculate_daily_profit awaits a fetch
    today,        \* calculate_daily_profit's local `today`
    bot_idx,      \* position of the loop over self.trading_bots (1-based)
    bot_profits,  \* calculate_daily_profit's local `bot_profits`
    sent_at,      \* the clock when the pending fetch was issued (get_trading_history's end_time)
    fetch_log,    \* history: what the exchange answered to each fetch of the pass
    ret,          \* the value the last finished operation returned to its caller
    passes,       \* number of calculate_daily_profit calls started
    call,         \* inputs of a direct call of generate_signature / make_okx_request
    result        \* what that call produced

vars == <<clock, daily_data, pc, today, bot_idx, bot_profits, sent_at, fetch_log,
          ret, passes, call, result>>

-----------------------------------------------------------------------------
(* Bounds of the model *)

MaxPasses == 2
MaxClock == 2
DaysPerMonth == 2
MaxStrLen == 1

(* Program constants *)

NOTIONAL == 1000
HTTP_OK == 200

-----------------------------------------------------------------------------
(* Sentinels *)

None == [tag |-> "None"]
Some(v) == [tag |-> "some", value |-> v]
EmptyDict == [k \in {} |-> k]
NoDate == <<0, 0>>
NoRet == [op |-> "none"]
NoCall == [fn |-> "none"]
NoResult == [tag |-> "pending"]
NotJson == [tag |-> "notjson"]
Json(b) == [tag |-> "json", body |-> b]

(* self.trading_bots, in insertion order *)
trading_bots ==
    << [name |-> "Bot-DCA-BTC",        symbol |-> "BTC-USDT", strategy |-> "DCA"],
       [name |-> "Bot-Grid-ETH",       symbol |-> "ETH-USDT", strategy |-> "Grid"],
       [name |-> "Bot-Martingale-BNB", symbol |-> "BNB-USDT", strategy |-> "Martingale"] >>

BotNames == {trading_bots[i].name : i \in 1..Len(trading_bots)}

(* The credentials given to the constructor *)
api_key == "key"
passphrase == "pass"
base_url == "https://www.okx.com"

-----------------------------------------------------------------------------
(* The clock: datetime.now().strftime *)

strftime_date(c) == <<(c \div DaysPerMonth) + 1, (c % DaysPerMonth) + 1>>
strftime_month(c) == (c \div DaysPerMonth) + 1
startswith(date, month) == date[1] = month
Dates == {strftime_date(c) : c \in 0..MaxClock}

(* datetime.utcnow().isoformat()[:-3] + 'Z' *)
utc_timestamp(c) == "T" \o ToString(c) \o "Z"

(* str(int(t.timestamp() * 1000)) *)
epoch_ms(c) == ToString(c * 24 * 60 * 60 * 1000)

-----------------------------------------------------------------------------
(* What the exchange can answer to one HTTP attempt *)

(* A fill carries the instrument it was asked for; the real endpoint names
   its profit field differently, so a fill may come without 'pnl'. *)
Fill(symbol, p) == [instId |-> symbol, pnl |-> p]
FillNoPnl(symbol) == [instId |-> symbol, tradeId |-> "t1"]
FillLists(symbol) ==
    CASE symbol = "BTC-USDT" ->
            { <<>>,
              <<Fill(symbol, "-10")>>,
              <<Fill(symbol, "20"), FillNoPnl(symbol), Fill(symbol, "-10")>> }
      [] symbol = "ETH-USDT" ->
            { <<>>, <<Fill(symbol, "20")>> }
      [] OTHER ->
            { <<>>, <<Fill(symbol, "-10"), Fill(symbol, "-10")>> }
EnvelopeCodes == {"0", "50011"}
Envelope(code, data) == [code |-> code, data |-> data]

Http(status, payload) == [kind |-> "http", status |-> status, payload |-> payload]
NetOutcomes(symbol) ==
    { [kind |-> "timeout"], [kind |-> "fault"],
      Http(500, NotJson), Http(204, NotJson),
      Http(HTTP_OK, NotJson), Http(HTTP_OK, Json(EmptyDict)) }
    \cup { Http(HTTP_OK, Json(Envelope(c, d))) :
             c \in EnvelopeCodes, d \in FillLists(symbol) }

-----------------------------------------------------------------------------
(* generate_signature *)

hmac_sha256(key, message) == [mac |-> "HMAC-SHA256", key |-> key, msg |-> message]
b64encode(digest) == [b64 |-> digest]

generate_signature_nobody(secret_key, timestamp, method, request_path, body) ==
    b64encode(hmac_sha256(secret_key, timestamp \o method \o request_path))

generate_signature(secret_key, timestamp, method, request_path, body) ==
    LET message == timestamp \o method \o request_path \o body
    IN  b64encode(hmac_sha256(secret_key, message))

-----------------------------------------------------------------------------
(* make_okx_request *)

RECURSIVE join_params(_)
join_params(params) ==
    IF Len(params) = 0 THEN ""
    ELSE LET kv == params[1][1] \o "=" \o params[1][2]
         IN  IF Len(params) = 1 THEN kv
             ELSE kv \o "&" \o join_params(Tail(params))

build_request_path(method, endpoint, params) ==
    IF Len(params) > 0 /\ method = "GET"
    THEN endpoint \o "?" \o join_params(params)
    ELSE endpoint

http_attempt(secret_key, method, request_path, timestamp) ==
    [ method  |-> method,
      url     |-> base_url \o request_path,
      headers |-> [ key        |-> api_key,
                    sign       |-> generate_signature(secret_key, timestamp, method,
                                                      request_path, ""),
                    timestamp  |-> timestamp,
                    passphrase |-> passphrase,
                    content    |-> "application/json" ],
      timeout |-> 10 ]

Returned(value, attempts) == [raised |-> FALSE, value |-> value, attempts |-> attempts]
Raised(attempts) == [raised |-> TRUE, value |-> None, attempts |-> attempts]

make_okx_request_timeout_escapes(secret_key, method, endpoint, params, timestamp, net) ==
    LET request_path == build_request_path(method, endpoint, params)
        attempt == http_attempt(secret_key, method, request_path, timestamp)
    IN  CASE net.kind = "timeout" -> Raised(<<attempt>>)
          [] net.kind = "fault" -> Returned(None, <<attempt>>)
          [] OTHER ->
                IF net.status = HTTP_OK /\ net.payload.tag = "json"
                THEN Returned(net.payload, <<attempt>>)
                ELSE Returned(None, <<attempt>>)

(* One session.request; every exception inside the try block is caught.  *)
make_okx_request(secret_key, method, endpoint, params, timestamp, net) ==
    LET request_path == build_request_path(method, endpoint, params)
        attempt == http_attempt(secret_key, method, request_path, timestamp)
    IN  CASE net.kind = "timeout" -> Returned(None, <<attempt>>)
          [] net.kind = "fault" -> Returned(None, <<attempt>>)
          [] OTHER ->
                IF net.status = HTTP_OK
                THEN IF net.payload.tag = "json"
                     THEN Returned(net.payload, <<attempt>>)
                     ELSE Returned(None, <<attempt>>)
                ELSE Returned(None, <<attempt>>)

-----------------------------------------------------------------------------
(* get_trading_history *)

secret_key == "secret"

truthy(response) == response.tag = "json" /\ DOMAIN response.body # {}
dict_get(d, k) == IF k \in DOMAIN d THEN Some(d[k]) ELSE None

history_params(symbol, days, c) ==
    << <<"instId", symbol>>,
       <<"after", epoch_ms(c - days)>>,
       <<"before", epoch_ms(c)>> >>

get_trading_history_any_code(symbol, days, c, net) ==
    LET response == make_okx_request(secret_key, "GET", "/api/v5/trade/fills-history",
                                     history_params(symbol, days, c),
                                     utc_timestamp(c), net)
    IN  IF response.raised THEN [raised |-> TRUE, value |-> <<>>]
        ELSE IF truthy(response.value) /\ "data" \in DOMAIN response.value.body
             THEN [raised |-> FALSE, value |-> response.value.body.data]
             ELSE [raised |-> FALSE, value |-> <<>>]

get_trading_history(symbol, days, c, net) ==
    LET response == make_okx_request(secret_key, "GET", "/api/v5/trade/fills-history",
                                     history_params(symbol, days, c),
                                     utc_timestamp(c), net)
    IN  IF response.raised THEN [raised |-> TRUE, value |-> <<>>]
        ELSE IF truthy(response.value)
                /\ dict_get(response.value.body, "code") = Some("0")
             THEN [raised |-> FALSE, value |-> response.value.body.data]
             ELSE [raised |-> FALSE, value |-> <<>>]

-----------------------------------------------------------------------------
(* calculate_daily_profit *)

float(s) == CASE s = "-10" -> -10
              [] s = "20"  -> 20

trade_pnl(trade) == IF "pnl" \in DOMAIN trade THEN float(trade.pnl) ELSE 0

RECURSIVE sum_pnl(_)
sum_pnl(trades) ==
    IF Len(trades) = 0 THEN 0 ELSE trade_pnl(trades[1]) + sum_pnl(Tail(trades))

bot_stat(symbol, trades) ==
    LET profit == sum_pnl(trades)
    IN  [ symbol            |-> symbol,
          profit_usdt       |-> profit,
          profit_percentage |-> IF profit # 0 THEN (profit * 100) \div NOTIONAL ELSE 0,
          trades_count      |-> Len(trades) ]

dict_set(d, k, v) == (k :> v) @@ d

(* One iteration of the for loop, after the awaited fetch has returned. *)
loop_body_drops_others(profits, bot, trades) ==
    IF Len(trades) > 0
    THEN dict_set(profits, bot.name, bot_stat(bot.symbol, trades))
    ELSE EmptyDict

loop_body(profits, bot, trades) ==
    IF Len(trades) > 0
    THEN dict_set(profits, bot.name, bot_stat(bot.symbol, trades))
    ELSE profits

(* self.daily_data[today] = bot_profits, after the loop only. *)
store_record_merges(data, date, profits, finished) ==
    IF finished
    THEN dict_set(data, date,
                  IF date \in DOMAIN data THEN profits @@ data[date] ELSE profits)
    ELSE data

store_record_keeps_on_empty(data, date, profits, finished) ==
    IF finished /\ DOMAIN profits # {} THEN dict_set(data, date, profits) ELSE data

store_record_write_through(data, date, profits, finished) ==
    dict_set(data, date, profits)

store_record(data, date, profits, finished) ==
    IF finished THEN dict_set(data, date, profits) ELSE data

(* The key the record is filed under: the local `today`. *)
record_key_at_completion(sampled, c) == strftime_date(c)

record_key(sampled, c) == sampled

-----------------------------------------------------------------------------
(* get_daily_summary: the value returned and self.daily_data afterwards *)

get_daily_summary_setdefault(data, date, c) ==
    LET d == IF date = NoDate THEN strftime_date(c) ELSE date
    IN  IF d \in DOMAIN data
        THEN [value |-> data[d], daily_data |-> data]
        ELSE [value |-> EmptyDict, daily_data |-> dict_set(data, d, EmptyDict)]

get_daily_summary(data, date, c) ==
    LET d == IF date = NoDate THEN strftime_date(c) ELSE date
    IN  [ value      |-> IF d \in DOMAIN data THEN data[d] ELSE EmptyDict,
          daily_data |-> data ]

-----------------------------------------------------------------------------
(* get_monthly_summary *)

(* Keys are inserted in the order the passes start, which is the order of
   the dates: iterating the dictionary is iterating the dates ascending. *)
date_before(a, b) == a[1] < b[1] \/ (a[1] = b[1] /\ a[2] < b[2])
first_date(S) == CHOOSE a \in S : \A b \in S \ {a} : date_before(a, b)

true_div(a, b) == [num |-> a, den |-> b]

add_day(summary, bot_name, bot_data) ==
    LET old == IF bot_name \in DOMAIN summary
               THEN summary[bot_name]
               ELSE [total_profit |-> 0, total_trades |-> 0, active_days |-> 0,
                     avg_percentage |-> true_div(0, 1)]
        profit == old.total_profit + bot_data.profit_usdt
        days == old.active_days + 1
    IN  dict_set(summary, bot_name,
                 [ total_profit   |-> profit,
                   total_trades   |-> old.total_trades + bot_data.trades_count,
                   active_days    |-> days,
                   avg_percentage |-> IF days > 0 THEN true_div(profit, days)
                                      ELSE true_div(0, 1) ])

RECURSIVE add_record(_, _, _)
add_record(summary, record, names) ==
    IF names = {} THEN summary
    ELSE LET n == CHOOSE x \in names : TRUE
         IN  add_record(add_day(summary, n, record[n]), record, names \ {n})

month_filter_all(date, month) == TRUE

month_filter(date, month) == startswith(date, month)

RECURSIVE fold_days(_, _, _, _)
fold_days(summary, data, dates, month) ==
    IF dates = {} THEN summary
    ELSE LET d == first_date(dates)
             next == IF month_filter(d, month)
                     THEN add_record(summary, data[d], DOMAIN data[d])
                     ELSE summary
         IN  fold_days(next, data, dates \ {d}, month)

get_monthly_summary(data, c) ==
    fold_days(EmptyDict, data, DOMAIN data, strftime_month(c))

-----------------------------------------------------------------------------
(* The operations *)

MainInit ==
    /\ clock = 0
    /\ daily_data = EmptyDict
    /\ pc = "idle"
    /\ today = NoDate
    /\ bot_idx = 0
    /\ bot_profits = EmptyDict
    /\ sent_at = 0
    /\ fetch_log = <<>>
    /\ ret = NoRet
    /\ passes = 0

Init == MainInit /\ call = NoCall /\ result = NoResult

(* The log of a finished pass is dropped by the next step. *)
log_after_step == IF pc = "idle" THEN <<>> ELSE fetch_log

(* The calendar advances, also while a pass awaits the exchange. *)
Tick ==
    /\ clock < MaxClock
    /\ clock' = clock + 1
    /\ ret' = NoRet
    /\ fetch_log' = log_after_step
    /\ UNCHANGED <<daily_data, pc, today, bot_idx, bot_profits, sent_at, passes,
                   call, result>>

(* calculate_daily_profit up to its first await. *)
CalculateDailyProfitStart ==
    /\ pc = "idle"
    /\ passes < MaxPasses
    /\ passes' = passes + 1
    /\ today' = strftime_date(clock)
    /\ bot_profits' = EmptyDict
    /\ bot_idx' = 1
    /\ sent_at' = clock
    /\ pc' = "await"
    /\ ret' = NoRet
    /\ fetch_log' = <<>>
    /\ UNCHANGED <<clock, daily_data, call, result>>

fetch_succeeded(net) ==
    /\ net.kind = "http"
    /\ net.status = 200
    /\ net.payload.tag = "json"
    /\ "code" \in DOMAIN net.payload.body
    /\ net.payload.body.code = "0"

fetch_record(bot, net) ==
    [ bot       |-> bot.name,
      symbol    |-> bot.symbol,
      succeeded |-> fetch_succeeded(net),
      fills     |-> IF fetch_succeeded(net) THEN net.payload.body.data ELSE <<>> ]

(* The awaited fetch returns: the rest of the loop iteration and then
   either the next bot's fetch is issued or, after the last bot, the record
   is stored and returned.  In ret, `date` and `replaced` are history: the
   key the record went under and what daily_data held there before. *)
FetchReturns(net) ==
    /\ pc = "await"
    /\ LET bot == trading_bots[bot_idx]
           trades == get_trading_history(bot.symbol, 1, sent_at, net)
           finished == bot_idx = Len(trading_bots)
           profits == loop_body(bot_profits, bot, trades.value)
           key == record_key(today, clock)
       IN  /\ fetch_log' = Append(fetch_log, fetch_record(bot, net))
           /\ IF trades.raised
              THEN /\ pc' = "idle"
                   /\ ret' = [op |-> "pass", raised |-> TRUE]
                   /\ today' = NoDate /\ bot_idx' = 0 /\ bot_profits' = EmptyDict
                   /\ sent_at' = 0
                   /\ UNCHANGED daily_data
              ELSE /\ daily_data' = store_record(daily_data, key, profits, finished)
                   /\ IF finished
                      THEN /\ pc' = "idle"
                           /\ ret' = [ op       |-> "pass",
                                       raised   |-> FALSE,
                                       value    |-> profits,
                                       date     |-> today,
                                       replaced |-> dict_get(daily_data, today) ]
                           /\ today' = NoDate /\ bot_idx' = 0
                           /\ bot_profits' = EmptyDict
                           /\ sent_at' = 0
                      ELSE /\ pc' = "await"
                           /\ ret' = NoRet
                           /\ bot_idx' = bot_idx + 1
                           /\ bot_profits' = profits
                           /\ sent_at' = clock
                           /\ UNCHANGED today
    /\ UNCHANGED <<clock, passes, call, result>>

(* The exchange answers the pending fetch in any of the ways it can. *)
Fetch ==
    /\ pc = "await"
    /\ \E net \in NetOutcomes(trading_bots[bot_idx].symbol) : FetchReturns(net)

(* Handlers are dispatched one at a time, so a read runs between passes. *)
GetDailySummary(date) ==
    /\ pc = "idle"
    /\ LET r == get_daily_summary(daily_data, date, clock)
       IN  /\ ret' = [op |-> "daily", date |-> date, value |-> r.value]
           /\ daily_data' = r.daily_data
    /\ fetch_log' = log_after_step
    /\ UNCHANGED <<clock, pc, today, bot_idx, bot_profits, sent_at, passes,
                   call, result>>

GetMonthlySummary ==
    /\ pc = "idle"
    /\ ret' = [op |-> "monthly", value |-> get_monthly_summary(daily_data, clock)]
    /\ fetch_log' = log_after_step
    /\ UNCHANGED <<clock, daily_data, pc, today, bot_idx, bot_profits, sent_at,
                   passes, call, result>>

Next ==
    \/ Tick
    \/ CalculateDailyProfitStart
    \/ Fetch
    \/ \E date \in Dates \cup {NoDate} : GetDailySummary(date)
    \/ GetMonthlySummary

Spec == Init /\ [][Next]_vars

-----------------------------------------------------------------------------
(* Direct calls of the two pure helpers, on inputs drawn from bounded sets *)

Alphabet == {"a", "b"}

RECURSIVE Strs(_)
Strs(n) ==
    IF n = 0 THEN {""}
    ELSE LET S == Strs(n - 1) IN S \cup {s \o c : s \in S, c \in Alphabet}

SecretKeys == {"secret", "other"}

SignArgs ==
    [ timestamp    : Strs(MaxStrLen),
      method       : Strs(MaxStrLen),
      request_path : Strs(MaxStrLen),
      body         : Strs(MaxStrLen) ]

sign(key, a) == generate_signature(key, a.timestamp, a.method, a.request_path, a.body)

SignInit ==
    /\ MainInit
    /\ call \in [fn : {"generate_signature"}, secret_key : SecretKeys, args : SignArgs]
    /\ result = NoResult

GenerateSignature ==
    /\ call.fn = "generate_signature"
    /\ result = NoResult
    /\ result' = [tag |-> "signature", value |-> sign(call.secret_key, call.args)]
    /\ UNCHANGED <<clock, daily_data, pc, today, bot_idx, bot_profits, sent_at,
                   fetch_log, ret, passes, call>>

SpecSign == SignInit /\ [][GenerateSignature]_vars

RequestArgs ==
    [ method    : {"GET", "POST"},
      endpoint  : {"/api/v5/account/balance", "/api/v5/trade/fills-history"},
      params    : {<<>>, history_params("BTC-USDT", 1, 1)},
      timestamp : {utc_timestamp(1)},
      net       : NetOutcomes("BTC-USDT") ]

RequestInit ==
    /\ MainInit
    /\ call \in [fn : {"make_okx_request"}, args : RequestArgs]
    /\ result = NoResult

MakeOkxRequest ==
    /\ call.fn = "make_okx_request"
    /\ result = NoResult
    /\ result' = make_okx_request(secret_key, call.args.method, call.args.endpoint,
                                  call.args.params, call.args.timestamp, call.args.net)
    /\ UNCHANGED <<clock, daily_data, pc, today, bot_idx, bot_profits, sent_at,
                   fetch_log, ret, passes, call>>

SpecRequest == RequestInit /\ [][MakeOkxRequest]_vars

-----------------------------------------------------------------------------
(* Vocabulary of the properties *)

NumBots == Len(trading_bots)
PassReturned == ret.op = "pass" /\ ~ret.raised
Stored(date) == IF date \in DOMAIN daily_data THEN daily_data[date] ELSE EmptyDict
HadFills(entry) == entry.succeeded /\ Len(entry.fills) >= 1

DecimalValue(fill) ==
    IF "pnl" \notin DOMAIN fill THEN 0
    ELSE IF fill.pnl = "20" THEN 20 ELSE 0 - 10

RECURSIVE PnlTotal(_, _)
PnlTotal(fills, n) ==
    IF n = 0 THEN 0 ELSE PnlTotal(fills, n - 1) + DecimalValue(fills[n])

ExpectedStat(entry) ==
    LET total == PnlTotal(entry.fills, Len(entry.fills))
    IN  [ symbol            |-> entry.symbol,
          profit_usdt       |-> total,
          profit_percentage |-> total \div 10,
          trades_count      |-> Len(entry.fills) ]

RECURSIVE SumOver(_, _, _, _)
SumOver(data, days, bot, field) ==
    IF days = {} THEN 0
    ELSE LET d == CHOOSE x \in days : TRUE
         IN  data[d][bot][field] + SumOver(data, days \ {d}, bot, field)

ActiveDays(bot) ==
    {d \in DOMAIN daily_data : d[1] = strftime_month(clock) /\ bot \in DOMAIN daily_data[d]}

-----------------------------------------------------------------------------
(* C1: when a pass completes for a date that already has a record, the
   record stored for that date is exactly the record the completing pass
   computed and returned: the same bots, the same values, nothing of the
   replaced record kept or added in. *)
OverwriteReplacesRecord ==
    (PassReturned /\ ret.replaced # None) =>
        /\ ret.date \in DOMAIN daily_data
        /\ DOMAIN daily_data[ret.date] = DOMAIN ret.value
        /\ \A b \in DOMAIN ret.value : daily_data[ret.date][b] = ret.value[b]

OverwriteWitness ==
    /\ PassReturned
    /\ ret.replaced # None
    /\ \E b \in DOMAIN ret.replaced.value : b \notin DOMAIN daily_data[ret.date]
    /\ DOMAIN daily_data[ret.date] # {}

(* C2: a bot is a key of the record a pass wrote exactly when, in that
   pass, the exchange answered its fetch with HTTP 200, envelope code "0"
   and at least one fill; and every stored statistic counts at least one
   trade. *)
OmissionRule ==
    /\ \A d \in DOMAIN daily_data : \A b \in DOMAIN daily_data[d] :
            daily_data[d][b].trades_count >= 1
    /\ PassReturned =>
            /\ Len(fetch_log) = NumBots
            /\ \A i \in 1..NumBots :
                    (trading_bots[i].name \in DOMAIN daily_data[ret.date])
                        <=> HadFills(fetch_log[i])
    /\ pc = "await" =>
            \A i \in 1..Len(fetch_log) :
                    (trading_bots[i].name \in DOMAIN bot_profits)
                        <=> HadFills(fetch_log[i])

OmissionWitness ==
    /\ PassReturned
    /\ ~fetch_log[1].succeeded
    /\ fetch_log[2].succeeded /\ Len(fetch_log[2].fills) = 0
    /\ DOMAIN daily_data[ret.date] = {trading_bots[3].name}

(* C3: a pass never ends by an exception, it ends only after the last
   bot's fetch; and every bot whose own fetch brought fills is in the returned
   record with the statistic of its own fills, whichever other bots
   failed. *)
FailuresStayLocal ==
    /\ ret.op = "pass" => ~ret.raised
    /\ (pc = "idle" /\ fetch_log # <<>>) => (PassReturned /\ Len(fetch_log) = NumBots)
    /\ PassReturned =>
            \A i \in 1..NumBots :
                HadFills(fetch_log[i]) =>
                    /\ trading_bots[i].name \in DOMAIN ret.value
                    /\ ret.value[trading_bots[i].name] = ExpectedStat(fetch_log[i])
    /\ pc = "await" =>
            \A i \in 1..Len(fetch_log) :
                HadFills(fetch_log[i]) =>
                    /\ trading_bots[i].name \in DOMAIN bot_profits
                    /\ bot_profits[trading_bots[i].name] = ExpectedStat(fetch_log[i])

FailureInTheMiddleWitness ==
    /\ PassReturned
    /\ HadFills(fetch_log[1]) /\ ~fetch_log[2].succeeded /\ HadFills(fetch_log[3])
    /\ DOMAIN daily_data[ret.date] = {trading_bots[1].name, trading_bots[3].name}
    /\ daily_data[ret.date][trading_bots[1].name].trades_count = 3

(* C4: the monthly summary has a bot exactly when a stored record of the
   current month contains it, and then total_trades and total_profit are
   the sums over those records, active_days is their number and
   avg_percentage is total_profit / active_days. *)
MonthlyConsistency ==
    ret.op = "monthly" =>
        /\ DOMAIN ret.value \subseteq BotNames
        /\ \A b \in BotNames :
              LET days == ActiveDays(b)
              IN  /\ (b \in DOMAIN ret.value) <=> (days # {})
                  /\ days # {} =>
                       /\ ret.value[b].total_trades =
                              SumOver(daily_data, days, b, "trades_count")
                       /\ ret.value[b].total_profit =
                              SumOver(daily_data, days, b, "profit_usdt")
                       /\ ret.value[b].active_days = Cardinality(days)
                       /\ ret.value[b].avg_percentage.den # 0
                       /\ ret.value[b].avg_percentage.num * Cardinality(days) =
                              SumOver(daily_data, days, b, "profit_usdt")
                                  * ret.value[b].avg_percentage.den

MonthlyWitness ==
    /\ ret.op = "monthly"
    /\ trading_bots[1].name \in DOMAIN ret.value
    /\ ret.value[trading_bots[1].name].active_days = 2
    /\ ret.value[trading_bots[1].name].total_trades = 4
    /\ ret.value[trading_bots[1].name].total_profit = 0

(* C5: a call of make_okx_request issues exactly one HTTP attempt and
   returns a value, never raising; on a timeout, a transport fault or a
   non-2xx status the value is None. *)
IsFailure(net) ==
    \/ net.kind \in {"timeout", "fault"}
    \/ net.kind = "http" /\ (net.status < 200 \/ net.status > 299)

SingleAttemptAbsent ==
    (call.fn = "make_okx_request" /\ result # NoResult) =>
        /\ ~result.raised
        /\ Len(result.attempts) = 1
        /\ IsFailure(call.args.net) => result.value = None

TimeoutAbsentWitness ==
    /\ call.fn = "make_okx_request"
    /\ result # NoResult
    /\ call.args.net.kind = "timeout"
    /\ result.value = None

(* C6 as amended: the signature of the same inputs is the same, and
   changing exactly one of timestamp, method, request path and body, the
   other three and the key kept, changes the signature. *)
DiffersInOne(a, b) ==
    Cardinality({f \in {"timestamp", "method", "request_path", "body"} : a[f] # b[f]}) = 1

SignatureSingleChange ==
    (call.fn = "generate_signature" /\ result # NoResult) =>
        /\ sign(call.secret_key, call.args) = result.value
        /\ \A other \in SignArgs :
              DiffersInOne(call.args, other) =>
                  sign(call.secret_key, other) # result.value

SignatureWitness ==
    /\ call.fn = "generate_signature"
    /\ result # NoResult
    /\ call.args = [timestamp |-> "a", method |-> "b", request_path |-> "a", body |-> "b"]

(* C6 as claimed: no two distinct input tuples have the same signature. *)
SignatureInjective ==
    (call.fn = "generate_signature" /\ result # NoResult) =>
        \A other \in SignArgs :
            other # call.args => sign(call.secret_key, other) # result.value

(* C7: get_daily_summary returns the record stored for the asked date
   (today when none is given), or an empty record when there is none, and
   changes nothing: daily_data keeps its keys and records and no pass or
   fetch is started. *)
GetDailyPureRead ==
    [][ ret'.op = "daily" =>
          LET d == IF ret'.date = NoDate THEN strftime_date(clock) ELSE ret'.date
          IN  /\ ret'.value = Stored(d)
              /\ daily_data' = daily_data
              /\ pc' = pc /\ passes' = passes /\ clock' = clock ]_vars

GetDailyEmptyStoreWitness ==
    /\ ret.op = "daily"
    /\ ret.date = strftime_date(MaxClock)
    /\ ret.value = EmptyDict
    /\ daily_data = EmptyDict

(* C8 as claimed: a pass that obtains no fills for any bot leaves a
   previous non-empty record of its date as it was. *)
EmptyPassKeepsPrevious ==
    (PassReturned /\ ret.replaced # None /\ DOMAIN ret.value = {}) =>
        (DOMAIN ret.replaced.value # {} => daily_data[ret.date] = ret.replaced.value)

(* C8 as amended: a pass that obtains no fills for any bot replaces a
   previous non-empty record of its date by the empty record. *)
EmptyPassOverwrites ==
    (PassReturned /\ ret.replaced # None /\ DOMAIN ret.value = {}) =>
        (DOMAIN ret.replaced.value # {} => daily_data[ret.date] = EmptyDict)

EmptyPassWitness ==
    /\ PassReturned
    /\ ret.replaced # None
    /\ DOMAIN ret.value = {}
    /\ DOMAIN ret.replaced.value = BotNames
    /\ \A i \in 1..NumBots : ~fetch_log[i].succeeded

(* C9: daily_data changes only in the step that ends a pass, after the
   last bot's fetch, and then one date gets the complete record the pass
   returns; while a pass awaits its fetches daily_data stays as it was. *)
NoPartialWrite ==
    [][ daily_data' # daily_data =>
          /\ pc = "await" /\ pc' = "idle"
          /\ bot_idx = NumBots
          /\ ret'.op = "pass" /\ ~ret'.raised
          /\ Len(fetch_log') = NumBots
          /\ \E d \in Dates : daily_data' = dict_set(daily_data, d, ret'.value) ]_vars

MidPassWitness ==
    /\ pc = "await"
    /\ bot_idx = NumBots
    /\ Cardinality(DOMAIN bot_profits) = 2
    /\ today \in DOMAIN daily_data
    /\ DOMAIN daily_data[today] = {trading_bots[3].name}

(* C10: a pass samples the date when it starts and keeps it; the step
   that ends the pass writes the returned record under that date, leaves
   every other date's record as it was and removes no date. *)
PassWritesOnlyStartDate ==
    [][ /\ (pc = "idle" /\ pc' = "await") => today' = strftime_date(clock)
        /\ (pc = "await" /\ pc' = "await") => today' = today
        /\ (pc = "await" /\ pc' = "idle") =>
              /\ ret'.op = "pass" /\ ~ret'.raised
              /\ ret'.date = today
              /\ DOMAIN daily_data' = DOMAIN daily_data \cup {today}
              /\ daily_data'[today] = ret'.value
              /\ \A d \in DOMAIN daily_data \ {today} : daily_data'[d] = daily_data[d]
        /\ DOMAIN daily_data \subseteq DOMAIN daily_data' ]_vars

DateAdvancedWitness ==
    /\ PassReturned
    /\ ret.date # strftime_date(clock)
    /\ ret.date[1] # strftime_month(clock)
    /\ DOMAIN daily_data = {ret.date}
    /\ DOMAIN ret.value # {}

====
